---- MODULE Spec2Model ----
(***************************************************************************)
(* Model of rain_monitor.py: one run of main() (fetch with retry, analyse  *)
(* the next three hours, optionally send an e-mail with retry), and the    *)
(* pure analysis functions applied to bounded forecast responses.          *)
(*                                                                         *)
(* Abstractions: log output, wall-clock waiting between attempts and the   *)
(* text of the e-mail are not modelled; 'check_time' of the summary is     *)
(* left out.  A timestamp string 'YYYY-MM-DDTHH:MM' is the record          *)
(* [date, hour, minute]; its first 13 characters are [date, hour].         *)
(***************************************************************************)
EXTENDS Integers, Sequences, FiniteSets, TLC

VARIABLES pc, TESTING_MODE, fetchAttempts, fetchResult, lastResponse,
          weather_data, clock, current_index, analyzed, analysis,
          sendAttempts, delivered, completed, exitCode

vars == <<pc, TESTING_MODE, fetchAttempts, fetchResult, lastResponse,
          weather_data, clock, current_index, analyzed, analysis,
          sendAttempts, delivered, completed, exitCode>>

(***************************************************************************)
(* Bounds of the model                                                     *)
(***************************************************************************)
MaxLen == 4

RunMaxLen == 1

(***************************************************************************)
(* Program constants                                                       *)
(***************************************************************************)
RAIN_THRESHOLD == 50

MaxAttemptsPlusOne == 15 + 1

MaxAttempts == 15

ForecastHoursPlusOne == 3 + 1

ForecastHours == 3

(***************************************************************************)
(* Input domains                                                           *)
(***************************************************************************)
Probabilities == {20, 50, 60}

Precipitations == {0, 2}

StartHours == {0, 22}

StepMinutes == {30, 60}

NowDates == {1, 2}

NowHours == {0, 1, 23}

NowMinutes == {17}

HourlyKeys == {"time", "precipitation_probability", "precipitation"}

Stamp(d, h, m) == [date |-> d, hour |-> h, minute |-> m]

AddMinutes(s, m) ==
    LET total == s.hour * 60 + s.minute + m
        day   == 24 * 60
    IN  Stamp(s.date + (total \div day), (total % day) \div 60, total % 60)

SeriesTimes(start, step, n) == [k \in 1..n |-> AddMinutes(start, (k - 1) * step)]

SeqsOfLen(S, n) == [1..n -> S]

Response(hasHourly, keys, times, probs, precs) ==
    [hourly |-> hasHourly, keys |-> keys, time |-> times,
     precipitation_probability |-> probs, precipitation |-> precs]

\* Well-formed responses: three parallel arrays of n samples.
SeriesResponses(maxLen, starts, steps) ==
    UNION { { Response(TRUE, HourlyKeys, SeriesTimes(Stamp(1, h, 0), st, n), p, q)
                : p \in SeqsOfLen(Probabilities, n), q \in SeqsOfLen(Precipitations, n) }
            : <<h, st, n>> \in starts \X steps \X (0..maxLen) }

DropKey(r, k) ==
    [r EXCEPT !.keys = @ \ {k},
              !.time = IF k = "time" THEN <<>> ELSE @,
              !.precipitation_probability =
                  IF k = "precipitation_probability" THEN <<>> ELSE @,
              !.precipitation = IF k = "precipitation" THEN <<>> ELSE @]

NoHourly == Response(FALSE, {}, <<>>, <<>>, <<>>)

ShortPrecipitation(r) ==
    [r EXCEPT !.precipitation = SubSeq(@, 1, Len(@) - 1)]

\* Malformed responses: a body without 'hourly', with one hourly key missing,
\* or with a precipitation array shorter than the time array.
MalformedResponses ==
    LET base == { r \in SeriesResponses(1, {0}, {60}) : Len(r.time) > 0 } IN
    {NoHourly} \cup
    { DropKey(r, k) : r \in base, k \in HourlyKeys } \cup
    { ShortPrecipitation(r) : r \in base }

RunResponses == SeriesResponses(RunMaxLen, {0}, {60}) \cup MalformedResponses

Nows == { Stamp(d, h, m) : d \in NowDates, h \in NowHours, m \in NowMinutes }

(***************************************************************************)
(* fetch_weather_data: validation of the parsed body                       *)
(***************************************************************************)
ValidResponse(data) ==
    /\ data.hourly
    /\ "precipitation_probability" \in data.keys

(***************************************************************************)
(* get_current_hour_index                                                  *)
(***************************************************************************)
Prefix13(s) == [date |-> s.date, hour |-> s.hour]

CurrentHourStr(now) == Stamp(now.date, now.hour, 0)

StartsWithHour(time_str, now) == Prefix13(time_str) = Prefix13(CurrentHourStr(now))

Matches(times, now) == { i \in 1..Len(times) : StartsWithHour(times[i], now) }

FirstMatch(times, now) ==
    CHOOSE i \in Matches(times, now) : \A j \in Matches(times, now) : i <= j

FallbackIndexZero(now) == 0

FallbackIndex(now) == now.hour

\* 0-based index, as in the source.
get_current_hour_index(data, now) ==
    IF ~data.hourly \/ "time" \notin data.keys
    THEN 0
    ELSE IF Matches(data.time, now) # {}
         THEN FirstMatch(data.time, now) - 1
         ELSE FallbackIndex(now)

(***************************************************************************)
(* analyze_rain_probability                                                *)
(***************************************************************************)
None == <<>>

Some(x) == <<x>>

MaxLast(a, b) == b

Max(a, b) == IF a >= b THEN a ELSE b

HourData(data, hour_index) ==
    [time          |-> data.time[hour_index + 1],
     probability   |-> data.precipitation_probability[hour_index + 1],
     precipitation |-> data.precipitation[hour_index + 1]]

EmptyAnalysis ==
    [hours_data |-> <<>>, max_probability |-> 0,
     total_precipitation |-> 0, alert_triggered |-> FALSE]

\* One pass of the loop body for offset i.
AnalyzeHour(data, idx, i, testing, a) ==
    LET hour_index == idx + i IN
    IF hour_index < Len(data.time)
    THEN LET hd == HourData(data, hour_index) IN
         [hours_data          |-> Append(a.hours_data, hd),
          max_probability     |-> Max(a.max_probability, hd.probability),
          total_precipitation |-> a.total_precipitation + hd.precipitation,
          alert_triggered     |-> \/ a.alert_triggered
                                  \/ hd.probability >= RAIN_THRESHOLD
                                  \/ testing]
    ELSE a

RECURSIVE AnalyzeLoop(_, _, _, _, _)
AnalyzeLoop(data, idx, i, testing, a) ==
    IF i >= ForecastHours
    THEN a
    ELSE AnalyzeLoop(data, idx, i + 1, testing, AnalyzeHour(data, idx, i, testing, a))

\* An index into a list that is too short raises, and so does a missing key.
AnalysisRaises(data, idx) ==
    \/ ~data.hourly
    \/ HourlyKeys \ data.keys # {}
    \/ \E i \in 0..(ForecastHours - 1) :
          /\ idx + i < Len(data.time)
          /\ \/ idx + i >= Len(data.precipitation_probability)
             \/ idx + i >= Len(data.precipitation)

analyze_rain_probability(data, now, testing) ==
    LET idx == get_current_hour_index(data, now) IN
    IF AnalysisRaises(data, idx)
    THEN None
    ELSE Some(AnalyzeLoop(data, idx, 0, testing, EmptyAnalysis))

(***************************************************************************)
(* main                                                                    *)
(***************************************************************************)
StopAfterAttemptOffByOne(n) == n > MaxAttempts

\* stop_after_attempt(15): no further attempt once n attempts were made.
StopAfterAttempt(n) == n >= MaxAttempts

AlertNeededAlways(a) == TRUE

AlertNeeded(a) == a.alert_triggered

AfterAnalysisNoReturn(result) ==
    IF result = None THEN "NO_ALERT"
    ELSE IF AlertNeeded(result[1]) THEN "ALERT" ELSE "NO_ALERT"

AfterAnalysis(result) ==
    IF result = None THEN "DONE"
    ELSE IF AlertNeeded(result[1]) THEN "ALERT" ELSE "NO_ALERT"

Init ==
    /\ pc = "START"
    /\ TESTING_MODE \in BOOLEAN
    /\ fetchAttempts = 0
    /\ fetchResult = "none"
    /\ lastResponse = None
    /\ weather_data = None
    /\ clock = None
    /\ current_index = 0
    /\ analyzed = FALSE
    /\ analysis = None
    /\ sendAttempts = 0
    /\ delivered = 0
    /\ completed = FALSE
    /\ exitCode = "running"

Start ==
    /\ pc = "START"
    /\ pc' = "FETCH"
    /\ UNCHANGED <<TESTING_MODE, fetchAttempts, fetchResult, lastResponse,
                   weather_data, clock, current_index, analyzed, analysis,
                   sendAttempts, delivered, completed, exitCode>>

\* The attempt raised: tenacity retries unless this was the last attempt,
\* in which case the error leaves main.
FetchRaised(resp) ==
    /\ fetchAttempts' = fetchAttempts + 1
    /\ fetchResult' = "raised"
    /\ lastResponse' = resp
    /\ IF StopAfterAttempt(fetchAttempts + 1)
       THEN pc' = "FAILED" /\ exitCode' = "nonzero"
       ELSE pc' = "FETCH" /\ exitCode' = exitCode
    /\ UNCHANGED <<TESTING_MODE, weather_data, clock, current_index, analyzed,
                   analysis, sendAttempts, delivered, completed>>

FetchTransportError ==
    /\ pc = "FETCH"
    /\ FetchRaised(None)

FetchInvalid ==
    /\ pc = "FETCH"
    /\ \E r \in RunResponses :
          /\ ~ValidResponse(r)
          /\ FetchRaised(Some(r))

FetchOk ==
    /\ pc = "FETCH"
    /\ \E r \in RunResponses :
          /\ ValidResponse(r)
          /\ fetchAttempts' = fetchAttempts + 1
          /\ fetchResult' = "returned"
          /\ lastResponse' = Some(r)
          /\ weather_data' = Some(r)
          /\ pc' = "ANALYZE"
    /\ UNCHANGED <<TESTING_MODE, clock, current_index, analyzed, analysis,
                   sendAttempts, delivered, completed, exitCode>>

Analyze ==
    /\ pc = "ANALYZE"
    /\ \E now \in Nows :
          LET result == analyze_rain_probability(weather_data[1], now, TESTING_MODE) IN
          /\ clock' = Some(now)
          /\ current_index' = get_current_hour_index(weather_data[1], now)
          /\ analysis' = result
          /\ analyzed' = TRUE
          /\ pc' = AfterAnalysis(result)
          /\ exitCode' = IF result = None THEN "zero" ELSE exitCode
    /\ UNCHANGED <<TESTING_MODE, fetchAttempts, fetchResult, lastResponse,
                   weather_data, sendAttempts, delivered, completed>>

Alert ==
    /\ pc = "ALERT"
    /\ pc' = "NOTIFY"
    /\ UNCHANGED <<TESTING_MODE, fetchAttempts, fetchResult, lastResponse,
                   weather_data, clock, current_index, analyzed, analysis,
                   sendAttempts, delivered, completed, exitCode>>

NoAlert ==
    /\ pc = "NO_ALERT"
    /\ pc' = "DONE"
    /\ completed' = TRUE
    /\ exitCode' = "zero"
    /\ UNCHANGED <<TESTING_MODE, fetchAttempts, fetchResult, lastResponse,
                   weather_data, clock, current_index, analyzed, analysis,
                   sendAttempts, delivered>>

(***************************************************************************)
(* send_rain_alert_email                                                   *)
(***************************************************************************)
SendRaised(sent) ==
    /\ sendAttempts' = sendAttempts + 1
    /\ delivered' = delivered + sent
    /\ IF StopAfterAttempt(sendAttempts + 1)
       THEN pc' = "FAILED" /\ exitCode' = "nonzero"
       ELSE pc' = "NOTIFY" /\ exitCode' = exitCode
    /\ UNCHANGED <<TESTING_MODE, fetchAttempts, fetchResult, lastResponse,
                   weather_data, clock, current_index, analyzed, analysis,
                   completed>>

\* yagmail.SMTP(...) or yag.send(...) raises: nothing was delivered.
SendFails ==
    /\ pc = "NOTIFY"
    /\ SendRaised(0)

\* yag.send(...) succeeded and yag.close() raises.
SendCloseFails ==
    /\ pc = "NOTIFY"
    /\ SendRaised(1)

SendOk ==
    /\ pc = "NOTIFY"
    /\ sendAttempts' = sendAttempts + 1
    /\ delivered' = delivered + 1
    /\ pc' = "DONE"
    /\ completed' = TRUE
    /\ exitCode' = "zero"
    /\ UNCHANGED <<TESTING_MODE, fetchAttempts, fetchResult, lastResponse,
                   weather_data, clock, current_index, analyzed, analysis>>

Next ==
    \/ Start
    \/ FetchTransportError
    \/ FetchInvalid
    \/ FetchOk
    \/ Analyze
    \/ Alert
    \/ NoAlert
    \/ SendFails
    \/ SendCloseFails
    \/ SendOk

Spec == Init /\ [][Next]_vars

FairSpec == Spec /\ WF_vars(Next)

(***************************************************************************)
(* The analysis functions applied to every bounded fetched response        *)
(***************************************************************************)
InitFn ==
    /\ pc = "ANALYZE"
    /\ TESTING_MODE \in BOOLEAN
    /\ fetchAttempts = 1
    /\ fetchResult = "returned"
    /\ \/ \E h \in StartHours, st \in StepMinutes, n \in 0..MaxLen :
             \E p \in SeqsOfLen(Probabilities, n), q \in SeqsOfLen(Precipitations, n) :
                weather_data = Some(Response(TRUE, HourlyKeys,
                                             SeriesTimes(Stamp(1, h, 0), st, n), p, q))
       \/ \E r \in MalformedResponses :
             /\ ValidResponse(r)
             /\ weather_data = Some(r)
    /\ lastResponse = weather_data
    /\ clock = None
    /\ current_index = 0
    /\ analyzed = FALSE
    /\ analysis = None
    /\ sendAttempts = 0
    /\ delivered = 0
    /\ completed = FALSE
    /\ exitCode = "running"

NextFn == Analyze

SpecFn == InitFn /\ [][NextFn]_vars

(***************************************************************************)
(* Properties                                                              *)
(***************************************************************************)
HasSummary == analyzed /\ analysis # None

Summary == analysis[1]

Data == weather_data[1]

Terminal == pc \in {"DONE", "FAILED"}

Min2(a, b) == IF a <= b THEN a ELSE b

Max2(a, b) == IF a >= b THEN a ELSE b

\* C1: whenever a summary is returned, alert_triggered is true iff
\* max_probability >= RAIN_THRESHOLD or TESTING_MODE is on, also when the
\* resolved index is past the end of the series and no hour is inspected.
C1_AlertIffMaxOrTesting ==
    HasSummary =>
        (Summary.alert_triggered <=>
            (Summary.max_probability >= 50 \/ TESTING_MODE))

\* C2: for a series of length L and resolved index i, the summary holds
\* exactly min(3, max(0, L - i)) hour entries, in order, the k-th equal to the
\* series' time, probability and precipitation at position i + k.
C2_HourEntries ==
    HasSummary =>
        LET L  == Len(Data.time)
            i  == current_index
            n  == Min2(3, Max2(0, L - i))
            hs == Summary.hours_data
        IN  /\ i >= 0
            /\ Len(hs) = n
            /\ \A k \in 0..(n - 1) :
                  /\ hs[k + 1].time = Data.time[i + k + 1]
                  /\ hs[k + 1].probability = Data.precipitation_probability[i + k + 1]
                  /\ hs[k + 1].precipitation = Data.precipitation[i + k + 1]

\* The series is longer than three hours past the index: exactly three kept.
C2_Witness ==
    /\ HasSummary
    /\ Len(Data.time) - current_index > 3
    /\ Len(Summary.hours_data) = 3
    /\ Summary.hours_data[1].probability # Summary.hours_data[1].precipitation

\* C3: at most 15 fetch attempts, each new one only after the previous one
\* raised; a fetch that returns hands the response of that attempt to the
\* analysis; 15 failures end the run FAILED with a non-zero exit, without
\* analysis or send.
C3_Inv ==
    /\ fetchAttempts <= 15
    /\ fetchResult = "returned" =>
          /\ pc \notin {"START", "FETCH"}
          /\ weather_data # None
          /\ weather_data = lastResponse
    /\ (fetchResult = "raised" /\ fetchAttempts = 15) =>
          /\ pc = "FAILED"
          /\ exitCode = "nonzero"
          /\ ~analyzed
          /\ weather_data = None
          /\ sendAttempts = 0
    /\ (fetchResult = "raised" /\ fetchAttempts < 15) => pc = "FETCH"

C3_Step ==
    fetchAttempts' # fetchAttempts =>
        /\ fetchAttempts' = fetchAttempts + 1
        /\ fetchAttempts < 15
        /\ pc = "FETCH"
        /\ fetchAttempts > 0 => fetchResult = "raised"

C3_FetchRetry == []C3_Inv /\ [][C3_Step]_vars

\* Fourteen failures, success on the fifteenth attempt, run completed.
C3_Witness ==
    /\ fetchAttempts = 15
    /\ fetchResult = "returned"
    /\ pc = "DONE"
    /\ completed
    /\ exitCode = "zero"

\* C4: no response lacking the hourly precipitation-probability field or the
\* hourly precipitation field is ever handed to the analyzer.
C4_BothFieldsValidated ==
    weather_data # None =>
        /\ Data.hourly
        /\ {"precipitation_probability", "precipitation"} \subseteq Data.keys

\* C5: a send is attempted only after the fetch returned and the analysis
\* returned a summary whose alert flag is true; with a null analysis or a
\* false flag no send is attempted and main does not raise.
C5_SendOnlyOnAlert ==
    /\ (sendAttempts > 0 \/ pc = "NOTIFY") =>
          /\ fetchResult = "returned"
          /\ HasSummary
          /\ Summary.alert_triggered
    /\ (analyzed /\ (analysis = None \/ ~Summary.alert_triggered)) =>
          /\ sendAttempts = 0
          /\ delivered = 0
          /\ pc \in {"NO_ALERT", "DONE"}
          /\ exitCode # "nonzero"

\* A test-override notification: a send was attempted below the threshold.
C5_Witness ==
    /\ sendAttempts > 0
    /\ HasSummary
    /\ Summary.alert_triggered
    /\ Summary.max_probability < 50

\* C6 as stated: a run that exits 0 has completed the full run (fetch, a
\* summary, the alert decision, any needed notification, completion marker).
C6_NoPartialSuccess ==
    (pc = "DONE" /\ exitCode = "zero") =>
        /\ completed
        /\ fetchResult = "returned"
        /\ HasSummary
        /\ Summary.alert_triggered => delivered >= 1

\* C6 amended: a run ends in one of three ways: the full run completed with
\* exit 0; the analysis returned null and main returned early with exit 0,
\* without notification and without the completion marker; or an error left
\* main (non-zero exit) after the fetch or the send exhausted its attempts.
C6_ThreeEndings ==
    /\ pc = "DONE" =>
          /\ exitCode = "zero"
          /\ fetchResult = "returned"
          /\ analyzed
          /\ \/ /\ completed
                /\ analysis # None
                /\ IF Summary.alert_triggered THEN delivered >= 1 ELSE sendAttempts = 0
             \/ /\ ~completed
                /\ analysis = None
                /\ sendAttempts = 0
    /\ pc = "FAILED" =>
          /\ exitCode = "nonzero"
          /\ ~completed
          /\ \/ fetchAttempts = 15 /\ fetchResult = "raised"
             \/ sendAttempts = 15
    /\ ~Terminal => exitCode = "running" /\ ~completed

\* The early return: null analysis, exit 0, no completion marker.
C6_Witness ==
    /\ pc = "DONE"
    /\ exitCode = "zero"
    /\ analyzed
    /\ analysis = None
    /\ ~completed

\* C7: at most one yag.send call succeeds in a run, also when closing the
\* session fails after a successful send.
C7_AtMostOneEmail == delivered <= 1

\* C8: max_probability of a returned summary is the maximum probability of
\* its hour entries, and 0 when it has none.
C8_MaxProbability ==
    HasSummary =>
        LET hs == Summary.hours_data IN
        IF hs = <<>>
        THEN Summary.max_probability = 0
        ELSE /\ \E k \in 1..Len(hs) : hs[k].probability = Summary.max_probability
             /\ \A k \in 1..Len(hs) : hs[k].probability <= Summary.max_probability

\* The maximum is not the last entry inspected.
C8_Witness ==
    /\ HasSummary
    /\ Len(Summary.hours_data) = 3
    /\ Summary.hours_data[2].probability > Summary.hours_data[3].probability
    /\ Summary.hours_data[2].probability > Summary.hours_data[1].probability
    /\ Summary.max_probability = Summary.hours_data[2].probability

\* C9: the index is that of the first timestamp whose date and hour are the
\* current ones; with no such timestamp it is the current hour of day
\* (0..23) whatever the series length; when the lookup raises it is 0.
C9_CurrentHourIndex ==
    analyzed =>
        LET now   == clock[1]
            hits  == { i \in 1..Len(Data.time) :
                          /\ Data.time[i].date = now.date
                          /\ Data.time[i].hour = now.hour }
        IN  IF "time" \notin Data.keys
            THEN current_index = 0
            ELSE IF hits # {}
                 THEN /\ current_index + 1 \in hits
                      /\ \A j \in hits : current_index + 1 <= j
                 ELSE /\ current_index = now.hour
                      /\ current_index \in 0..23

\* No timestamp matches and the hour of day lies past the end of the series.
C9_Witness ==
    /\ analyzed
    /\ "time" \in Data.keys
    /\ Len(Data.time) > 0
    /\ \A i \in 1..Len(Data.time) :
          ~(Data.time[i].date = clock[1].date /\ Data.time[i].hour = clock[1].hour)
    /\ current_index = 23
    /\ current_index >= Len(Data.time)

\* C10: under fair scheduling of the run every run reaches DONE or FAILED,
\* visits the states only in the order START, FETCH, ANALYZE, NO_ALERT or
\* ALERT then NOTIFY, and makes at most 15 fetch and 15 send attempts.
C10_Successors(s) ==
    CASE s = "START"    -> {"FETCH"}
      [] s = "FETCH"    -> {"FETCH", "ANALYZE", "FAILED"}
      [] s = "ANALYZE"  -> {"NO_ALERT", "ALERT", "DONE"}
      [] s = "NO_ALERT" -> {"DONE"}
      [] s = "ALERT"    -> {"NOTIFY"}
      [] s = "NOTIFY"   -> {"NOTIFY", "DONE", "FAILED"}
      [] OTHER          -> {}

C10_Order == pc' \in C10_Successors(pc)

C10_Counts == fetchAttempts <= 15 /\ sendAttempts <= 15

C10_Terminates == <>Terminal /\ [][C10_Order]_vars /\ []C10_Counts

\* Both retry budgets used up before the run ended.
C10_Witness ==
    /\ pc = "FAILED"
    /\ fetchAttempts = 15
    /\ sendAttempts = 15

====
